---- MODULE Spec2Model ----
(***************************************************************************)
(* Model of the assemblies repository:                                     *)
(*   - assemblies/utils.py        fire_many, the firing scheduler          *)
(*   - brain/connectome/connectome.py   Connectome, the connectome engine  *)
(* Python dicts are modelled as sequences of <<key, value>> pairs so that  *)
(* the insertion order the code iterates in is kept.                       *)
(***************************************************************************)
EXTENDS Integers, Sequences, FiniteSets, TLC

\* ------------------------------------------------------------------ bounds
MaxParents == 2      \* longest parent list of an assembly
MaxRequest == 2      \* longest list of projectables handed to fire_many
NumSeeds == 2        \* number of distinct outputs of the random generator
MaxFires == 2        \* number of Connectome.fire calls in a run
MaxLayers == 5       \* number of layers fire_many may build
MaxParts == 4        \* number of parts registered one by one

\* ------------------------------------------------------------ brain parts
Stimuli == {"S"}
Areas == {"X1", "X2", "Y", "Z", "U"}
Assemblies == {"A1", "A2", "B"}
Entities == Stimuli \cup Assemblies

\* rank of an entity in the parent graph: parents have a smaller rank, which
\* makes every parent graph drawn in Init acyclic
Rank(e) == CASE e = "S" -> 0 [] e = "A1" -> 1 [] e = "A2" -> 2 [] e = "B" -> 3

\* ------------------------------------------------------------ dict helpers
RECURSIVE DictHas(_, _)
DictHas(d, k) ==
    IF d = <<>> THEN FALSE
    ELSE IF Head(d)[1] = k THEN TRUE ELSE DictHas(Tail(d), k)

RECURSIVE DictGet(_, _, _)
DictGet(d, k, default) ==
    IF d = <<>> THEN default
    ELSE IF Head(d)[1] = k THEN Head(d)[2] ELSE DictGet(Tail(d), k, default)

RECURSIVE DictPut(_, _, _)
DictPut(d, k, v) ==
    IF d = <<>> THEN << <<k, v>> >>
    ELSE IF Head(d)[1] = k THEN << <<k, v>> >> \o Tail(d)
    ELSE <<Head(d)>> \o DictPut(Tail(d), k, v)

Min(a, b) == IF a <= b THEN a ELSE b

DictKeys(d) == [i \in 1..Len(d) |-> d[i][1]]

DictKeySet(d) == {d[i][1] : i \in 1..Len(d)}

SeqSet(s) == {s[i] : i \in 1..Len(s)}

\* sequences of pairwise distinct elements of S, of length 1..n
DistinctSeqs(S, n) ==
    {s \in UNION {[1..m -> S] : m \in 1..n} :
        \A i, j \in 1..Len(s) : i # j => s[i] # s[j]}

VARIABLES
    parents,        \* Assembly.parents: assembly -> sequence of entities
    ent_area,       \* Assembly.area: assembly -> area
    sched_pc,       \* position of fire_many
    projectables,   \* argument of fire_many
    target,         \* argument `area` of fire_many
    layers,         \* local `layers`
    next_layer,     \* index of the layer the firing loop is at
    rounds,         \* the mappings handed to brain.next_round, in order
    call_winners    \* history: self.winners when fire_many was called

sched_vars == <<parents, ent_area, sched_pc, projectables, target, layers,
                next_layer, rounds, call_winners>>

VARIABLES
    areas,                \* self.areas: the registered areas
    stimuli,              \* self.stimuli: the registered stimuli
    connections,          \* self.connections: (part, area) -> synapses matrix
    winners,              \* self.winners: area -> array of neuron indices
    plasticity_disabled,  \* self._plasticity_disabled
    fire_pc,              \* position of Connectome.fire
    sources_mapping,      \* local of fire: area -> list of source parts
    new_winners,          \* local of fire: area -> array of neuron indices
    fires,                \* number of fire calls made so far
    fire_error,           \* the last fire call raised
    pre_winners,          \* history: self.winners when the call began
    pre_connections       \* history: every weight as it was when the call
                          \* began, or as generated if created in the call

conn_vars == <<areas, stimuli, connections, winners, plasticity_disabled, fire_pc,
               sources_mapping, new_winners, fires, fire_error, pre_winners,
               pre_connections>>

vars == <<sched_vars, conn_vars>>

\* ---------------------------------------------------------------- fire_many
\* the areas fire_many is asked to fire into
Targets == {"X1", "X2", "Y"}

IsAssembly(e) == e \in Assemblies
IsStimulus(e) == e \in Stimuli

\* line 25
FirstLayer(ps, area) == [i \in 1..Len(ps) |-> <<ps[i], <<area>> >>]

RECURSIVE DictFromPairs(_, _)
DictFromPairs(pairs, d) ==
    IF pairs = <<>> THEN d
    ELSE DictFromPairs(Tail(pairs), DictPut(d, Head(pairs)[1], Head(pairs)[2]))

\* the loop going on only while every entity of the layer is an assembly
AllAssemblies(layer) == \A i \in 1..Len(layer) : IsAssembly(layer[i][1])

\* line 26
AnyAssembly(layer) == \E i \in 1..Len(layer) : IsAssembly(layer[i][1])

\* line 31: the destinations stored for `parent` are looked up under `ass`
LayerEntry(current_layer, ass, parent) ==
    DictPut(current_layer, parent,
            DictGet(current_layer, ass, <<>>) \o <<ent_area[ass]>>)

\* lines 30-31
RECURSIVE ForParents(_, _, _)
ForParents(current_layer, ass, ps) ==
    IF ps = <<>> THEN current_layer
    ELSE ForParents(LayerEntry(current_layer, ass, Head(ps)), ass, Tail(ps))

\* lines 27-31
RECURSIVE ForPrevLayer(_, _)
ForPrevLayer(current_layer, keys) ==
    IF keys = <<>> THEN current_layer
    ELSE IF IsStimulus(Head(keys)) THEN ForPrevLayer(current_layer, Tail(keys))
    ELSE ForPrevLayer(ForParents(current_layer, Head(keys), parents[Head(keys)]),
                      Tail(keys))

\* lines 27-33
NextLayerOf(layer) == ForPrevLayer(<<>>, DictKeys(layer))

\* the layers left in the order they were built
KeepOrder(s) == s

\* line 35
ReverseSeq(s) == [i \in 1..Len(s) |-> s[Len(s) + 1 - i]]

\* lines 37-39
RECURSIVE StimuliMappings(_, _)
StimuliMappings(layer, stimuli_mappings) ==
    IF layer = <<>> THEN stimuli_mappings
    ELSE IF IsStimulus(Head(layer)[1])
         THEN StimuliMappings(Tail(layer),
                  DictPut(stimuli_mappings, Head(layer)[1], Head(layer)[2]))
         ELSE StimuliMappings(Tail(layer), stimuli_mappings)

\* an area's list replaced by the destinations of the assembly met last
RECURSIVE AssemblyOverwrite(_, _)
AssemblyOverwrite(layer, assembly_mapping) ==
    IF layer = <<>> THEN assembly_mapping
    ELSE IF IsAssembly(Head(layer)[1])
         THEN AssemblyOverwrite(Tail(layer),
                  DictPut(assembly_mapping, ent_area[Head(layer)[1]],
                          Head(layer)[2]))
         ELSE AssemblyOverwrite(Tail(layer), assembly_mapping)

\* lines 41-43
RECURSIVE AssemblyMapping(_, _)
AssemblyMapping(layer, assembly_mapping) ==
    IF layer = <<>> THEN assembly_mapping
    ELSE IF IsAssembly(Head(layer)[1])
         THEN AssemblyMapping(Tail(layer),
                  DictPut(assembly_mapping, ent_area[Head(layer)[1]],
                          DictGet(assembly_mapping, ent_area[Head(layer)[1]], <<>>)
                              \o Head(layer)[2]))
         ELSE AssemblyMapping(Tail(layer), assembly_mapping)

\* line 45
RoundMapping(layer) ==
    DictFromPairs(AssemblyMapping(layer, <<>>), StimuliMappings(layer, <<>>))

FireMany ==
    /\ sched_pc \in {"idle", "done"}
    /\ fire_pc = "idle"
    /\ fires < MaxFires
    /\ \E ps \in DistinctSeqs(Entities, MaxRequest), area \in Targets :
          /\ projectables' = ps
          /\ target' = area
          /\ layers' = <<DictFromPairs(FirstLayer(ps, area), <<>>)>>
    /\ sched_pc' = "build"
    /\ next_layer' = 0
    /\ rounds' = <<>>
    /\ call_winners' = winners
    /\ UNCHANGED <<parents, ent_area>>
    /\ UNCHANGED conn_vars

BuildLayer ==
    /\ sched_pc = "build"
    /\ Len(layers) < MaxLayers
    /\ AnyAssembly(layers[Len(layers)])
    /\ layers' = Append(layers, NextLayerOf(layers[Len(layers)]))
    /\ UNCHANGED <<parents, ent_area, sched_pc, projectables, target,
                   next_layer, rounds, call_winners>>
    /\ UNCHANGED conn_vars

ReverseLayers ==
    /\ sched_pc = "build"
    /\ ~AnyAssembly(layers[Len(layers)])
    /\ layers' = ReverseSeq(layers)
    /\ next_layer' = 1
    /\ sched_pc' = "fire"
    /\ UNCHANGED <<parents, ent_area, projectables, target, rounds,
                   call_winners>>
    /\ UNCHANGED conn_vars

\* lines 36-46: one pass of the loop over the reversed layers
IssueRound ==
    /\ sched_pc = "fire"
    /\ next_layer <= Len(layers)
    /\ rounds' = Append(rounds, RoundMapping(layers[next_layer]))
    /\ next_layer' = next_layer + 1
    /\ sched_pc' = IF next_layer = Len(layers) THEN "done" ELSE "fire"
    /\ UNCHANGED <<parents, ent_area, projectables, target, layers,
                   call_winners>>

\* a round handed to a brain that only records it
NextRound ==
    /\ IssueRound
    /\ UNCHANGED conn_vars

\* ---------------------------------------------------------------- Connectome
Parts == Areas \cup Stimuli

\* BrainPart.n and Area.k of the registered parts
PartN == [p \in Parts |->
             CASE p = "S" -> 2 [] p = "X1" -> 3 [] p = "X2" -> 3
               [] p = "Y" -> 2 [] p = "Z" -> 2 [] p = "U" -> 2]
AreaK == [a \in Areas |->
             CASE a = "X1" -> 1 [] a = "X2" -> 2 [] a = "Y" -> 2 [] a = "Z" -> 0
               [] a = "U" -> 1]

\* Connection.beta, as a whole number: a potentiated weight is doubled
Beta(source, area) == 1

Neurons(p) == 0..(PartN[p] - 1)

\* rng.multi_generate: a vector of 0/1 draws, one of NumSeeds outcomes
Generate(seed, t) == IF t % (seed + 1) = 0 THEN 1 ELSE 0

\* line 61: the draws reshaped to (part.n, area.n) in column-major order
Synapses(seed, part, area) ==
    [i \in Neurons(part) |->
        [j \in Neurons(area) |-> Generate(seed, i + j * PartN[part])]]

Seeds == 0..(NumSeeds - 1)

IsArea(p) == p \in Areas

\* lines 46-52: the inner loop of _initialize_parts for one part; the
\* matrices of one call are all drawn from one outcome of the generator
RECURSIVE ForOthers(_, _, _, _)
ForOthers(conns, seed, part, others) ==
    IF others = <<>> THEN conns
    ELSE LET other == Head(others)
             to_other == (<<part, other>> :> Synapses(seed, part, other)) @@ conns
             both == IF IsArea(part) /\ part # other
                     THEN (<<other, part>> :> Synapses(seed, other, part))
                              @@ to_other
                     ELSE to_other
         IN  ForOthers(both, seed, part, Tail(others))

\* lines 42-52
RECURSIVE InitializeParts(_, _, _, _)
InitializeParts(conns, seed, parts, registered) ==
    IF parts = <<>> THEN conns
    ELSE InitializeParts(ForOthers(conns, seed, Head(parts), registered),
                         seed, Tail(parts), registered)

\* super().add_area / super().add_stimulus: the part joins the registered ones
Register(registered, part) == Append(registered, part)

\* lines 34-36
AddArea ==
    /\ fire_pc = "idle"
    /\ Len(areas) + Len(stimuli) < MaxParts
    /\ \E area \in Areas \ SeqSet(areas), seed \in Seeds :
          /\ areas' = Register(areas, area)
          /\ connections' = InitializeParts(connections, seed, <<area>>,
                                            Register(areas, area) \o stimuli)
    /\ UNCHANGED <<stimuli, winners, plasticity_disabled, fire_pc,
                   sources_mapping, new_winners, fires, fire_error, pre_winners,
                   pre_connections>>
    /\ UNCHANGED sched_vars

\* lines 38-40
AddStimulus ==
    /\ fire_pc = "idle"
    /\ Len(areas) + Len(stimuli) < MaxParts
    /\ \E stimulus \in Stimuli \ SeqSet(stimuli), seed \in Seeds :
          /\ stimuli' = Register(stimuli, stimulus)
          /\ connections' = InitializeParts(connections, seed, <<stimulus>>,
                                            areas \o Register(stimuli, stimulus))
    /\ UNCHANGED <<areas, winners, plasticity_disabled, fire_pc,
                   sources_mapping, new_winners, fires, fire_error, pre_winners,
                   pre_connections>>
    /\ UNCHANGED sched_vars

\* the requests handed to Connectome.fire
Requests == {
    << <<"S", <<"X1">> >> >>,
    << <<"S", <<"U">> >> >>,
    << <<"S", <<"X1", "X2">> >> >>,
    << <<"S", <<"X1", "X1">> >> >>,
    << <<"S", <<>> >>, <<"X1", <<>> >> >>,
    << <<"X1", <<"X1">> >> >>,
    << <<"X1", <<"X2">> >>, <<"X2", <<"X1">> >> >>,
    << <<"S", <<"X2">> >>, <<"X1", <<"X2">> >> >>,
    << <<"X2", <<"Y">> >> >>,
    << <<"S", <<"X1", "Z">> >> >>
}

\* lines 152-154
RECURSIVE ForAreas(_, _, _)
ForAreas(mapping, part, dests) ==
    IF dests = <<>> THEN mapping
    ELSE ForAreas(DictPut(mapping, Head(dests),
                          Append(DictGet(mapping, Head(dests), <<>>), part)),
                  part, Tail(dests))

\* lines 149-154
RECURSIVE SourcesMapping(_, _)
SourcesMapping(mapping, request) ==
    IF request = <<>> THEN mapping
    ELSE SourcesMapping(ForAreas(mapping, Head(request)[1], Head(request)[2]),
                        Tail(request))

\* lines 131-133: the pairs _project_into has to create
\* every pair of the projection, whether it has a connection or not
EveryPair(area, sources) == {<<part, area>> : part \in SeqSet(sources)}

Unconnected(area, sources) ==
    {<<part, area>> : part \in SeqSet(sources)} \ DOMAIN connections

\* sum of the entries of column j in the given rows of a matrix
RECURSIVE RowSum(_, _, _)
RowSum(synapses, rows, j) ==
    IF rows = <<>> THEN 0
    ELSE synapses[Head(rows)][j] + RowSum(synapses, Tail(rows), j)

\* range(n) as a sequence
Range(n) == [i \in 1..n |-> i - 1]

\* lines 136-140: what one source adds to the input of neuron j
SourceInput(conns, wins, source, area, j) ==
    IF source \in Stimuli
    THEN RowSum(conns[<<source, area>>], Range(PartN[source]), j)
    ELSE RowSum(conns[<<source, area>>], wins[source], j)

\* lines 135-140: prev_winner_inputs[j]
RECURSIVE InputOf(_, _, _, _, _)
InputOf(conns, wins, area, sources, j) ==
    IF sources = <<>> THEN 0
    ELSE SourceInput(conns, wins, Head(sources), area, j)
             + InputOf(conns, wins, area, Tail(sources), j)

\* lines 135-140: prev_winner_inputs
PrevWinnerInputs(conns, wins, area, sources) ==
    [j \in Neurons(area) |-> InputOf(conns, wins, area, sources, j)]

\* line 141, np.argpartition: kth must index the array
KthInBounds(n, kth) == -n <= kth /\ kth < n

\* line 141, np.argpartition for a small kth: positions 0..kth of the index
\* array are filled by selection, each with the first smallest remaining
\* element
RECURSIVE Select(_, _, _, _, _)
Select(v, tosort, n, i, kth) ==
    IF i > kth THEN tosort
    ELSE LET minidx == CHOOSE k \in i..(n - 1) :
                           \A m \in i..(n - 1) :
                               /\ v[tosort[k]] <= v[tosort[m]]
                               /\ m < k => v[tosort[k]] < v[tosort[m]]
             swapped == [tosort EXCEPT ![i] = tosort[minidx],
                                       ![minidx] = tosort[i]]
         IN  Select(v, swapped, n, i + 1, kth)

ArgPartition(v, n, kth) == Select(v, [i \in 0..(n - 1) |-> i], n, 0, kth)

\* the slice taken one element too long
LastKPlusOne(arr, n, k) ==
    [i \in 1..Min(k + 1, n) |-> arr[n - Min(k + 1, n) + i - 1]]

\* line 141, [-k:]
LastK(arr, n, k) ==
    IF k = 0 THEN [i \in 1..n |-> arr[i - 1]]
    ELSE [i \in 1..k |-> arr[n - k + i - 1]]

\* the first k of the partitioned indices instead of the last k
FirstK(inputs, n, k) ==
    [i \in 1..k |-> ArgPartition(inputs, n, n - k)[i - 1]]

\* line 141
TopK(inputs, n, k) == LastK(ArgPartition(inputs, n, n - k), n, k)

\* the factor taken as (1 - beta)
ScaleDown(synapses, source_neurons, area_winners, beta) ==
    [i \in DOMAIN synapses |->
        [j \in DOMAIN synapses[i] |->
            IF i \in source_neurons /\ j \in area_winners
            THEN synapses[i][j] * (1 - beta)
            ELSE synapses[i][j]]]

\* line 109
Scale(synapses, source_neurons, area_winners, beta) ==
    [i \in DOMAIN synapses |->
        [j \in DOMAIN synapses[i] |->
            IF i \in source_neurons /\ j \in area_winners
            THEN synapses[i][j] * (1 + beta)
            ELSE synapses[i][j]]]

\* lines 95-96
SourceNeurons(source) ==
    IF source \in Stimuli THEN Neurons(source) ELSE SeqSet(winners[source])

\* lines 92-109
RECURSIVE ForSources(_, _, _, _)
ForSources(conns, area, area_winners, sources) ==
    IF sources = <<>> THEN conns
    ELSE LET source == Head(sources)
             c == <<source, area>>
         IN  ForSources([conns EXCEPT ![c] = Scale(conns[c], SourceNeurons(source),
                                                   SeqSet(area_winners),
                                                   Beta(source, area))],
                        area, area_winners, Tail(sources))

\* lines 91-109
RECURSIVE ForNewWinners(_, _, _)
ForNewWinners(conns, entries, sources) ==
    IF entries = <<>> THEN conns
    ELSE ForNewWinners(ForSources(conns, Head(entries)[1], Head(entries)[2],
                                  DictGet(sources, Head(entries)[1], <<>>)),
                       Tail(entries), sources)

\* every area's winners overwritten, not only those of to_update
ForEveryArea(wins, to_update, entries) ==
    [a \in Areas |-> DictGet(entries, a, <<>>)]

\* lines 117-119
RECURSIVE ForToUpdate(_, _, _)
ForToUpdate(wins, to_update, entries) ==
    IF to_update = <<>> THEN wins
    ELSE ForToUpdate([wins EXCEPT ![Head(to_update)] =
                          DictGet(entries, Head(to_update), <<>>)],
                     Tail(to_update), entries)

\* lines 143-157
\* lines 143-157: fire entered with `request`, sources_mapping built
FireCalled(request) ==
    /\ sources_mapping' = SourcesMapping(<<>>, request)
    /\ new_winners' = <<>>
    /\ fire_pc' = "project"
    /\ fires' = fires + 1
    /\ fire_error' = FALSE
    /\ pre_winners' = winners
    /\ pre_connections' = connections
    /\ UNCHANGED <<areas, stimuli, connections, winners, plasticity_disabled>>

\* fire called directly, outside fire_many
Fire ==
    /\ fire_pc = "idle"
    /\ sched_pc = "idle"
    /\ fires < MaxFires
    /\ \E request \in Requests : FireCalled(request)
    /\ UNCHANGED sched_vars

\* brain.next_round(mapping): the round's mapping handed to Connectome.fire,
\* which returns before fire_many goes on
NextRoundFire ==
    /\ fire_pc = "idle"
    /\ IssueRound
    /\ FireCalled(RoundMapping(layers[next_layer]))

\* the new winners of an area committed as soon as they are computed
ProjectIntoInPlace ==
    /\ fire_pc = "project"
    /\ Len(new_winners) < Len(sources_mapping)
    /\ LET area == sources_mapping[Len(new_winners) + 1][1]
           sources == sources_mapping[Len(new_winners) + 1][2]
           n == PartN[area]
           k == AreaK[area]
       IN  \E seed \in [Unconnected(area, sources) -> Seeds] :
             LET created == [c \in Unconnected(area, sources) |->
                                Synapses(seed[c], c[1], c[2])]
                 conns == created @@ connections
                 inputs == PrevWinnerInputs(conns, winners, area, sources)
             IN  /\ connections' = conns
                 /\ pre_connections' = created @@ pre_connections
                 /\ IF KthInBounds(n, n - k)
                    THEN /\ new_winners' =
                               DictPut(new_winners, area, TopK(inputs, n, k))
                         /\ winners' =
                               [winners EXCEPT ![area] = TopK(inputs, n, k)]
                         /\ UNCHANGED <<fire_pc, fire_error>>
                    ELSE /\ fire_pc' = "idle"
                         /\ fire_error' = TRUE
                         /\ UNCHANGED <<new_winners, winners>>
    /\ UNCHANGED <<areas, stimuli, plasticity_disabled, sources_mapping, fires,
                   pre_winners>>
    /\ UNCHANGED sched_vars

\* lines 160-161 and 121-141: one pass of the loop over to_update
ProjectInto ==
    /\ fire_pc = "project"
    /\ Len(new_winners) < Len(sources_mapping)
    /\ LET area == sources_mapping[Len(new_winners) + 1][1]
           sources == sources_mapping[Len(new_winners) + 1][2]
           n == PartN[area]
           k == AreaK[area]
       IN  \E seed \in [Unconnected(area, sources) -> Seeds] :
             LET created == [c \in Unconnected(area, sources) |->
                                Synapses(seed[c], c[1], c[2])]
                 conns == created @@ connections
                 inputs == PrevWinnerInputs(conns, winners, area, sources)
             IN  /\ connections' = conns
                 /\ pre_connections' = created @@ pre_connections
                 /\ IF KthInBounds(n, n - k)
                    THEN /\ new_winners' =
                               DictPut(new_winners, area, TopK(inputs, n, k))
                         /\ UNCHANGED <<fire_pc, fire_error>>
                    ELSE /\ fire_pc' = "idle"
                         /\ fire_error' = TRUE
                         /\ UNCHANGED new_winners
    /\ UNCHANGED <<areas, stimuli, winners, plasticity_disabled,
                   sources_mapping, fires, pre_winners>>
    /\ UNCHANGED sched_vars

\* the weights potentiated whatever the flag says
PotentiatedAlways ==
    ForNewWinners(connections, new_winners, sources_mapping)

\* lines 89-109: the weights update_connectomes leaves
Potentiate ==
    IF plasticity_disabled THEN connections
    ELSE ForNewWinners(connections, new_winners, sources_mapping)

\* line 163 and lines 83-109
UpdateConnectomes ==
    /\ fire_pc = "project"
    /\ Len(new_winners) = Len(sources_mapping)
    /\ connections' = Potentiate
    /\ fire_pc' = "update_winners"
    /\ UNCHANGED <<areas, stimuli, winners, plasticity_disabled,
                   sources_mapping, new_winners, fires, fire_error, pre_winners,
                   pre_connections>>
    /\ UNCHANGED sched_vars

\* line 164 and lines 111-119
UpdateWinners ==
    /\ fire_pc = "update_winners"
    /\ winners' = ForToUpdate(winners, DictKeys(sources_mapping), new_winners)
    /\ fire_pc' = "idle"
    /\ UNCHANGED <<areas, stimuli, connections, plasticity_disabled,
                   sources_mapping, new_winners, fires, fire_error, pre_winners,
                   pre_connections>>
    /\ UNCHANGED sched_vars

\* the plasticity toggle of the engine
SetPlasticity ==
    /\ fire_pc = "idle"
    /\ fires < MaxFires
    /\ plasticity_disabled' = ~plasticity_disabled
    /\ UNCHANGED <<areas, stimuli, connections, winners, fire_pc,
                   sources_mapping, new_winners, fires, fire_error, pre_winners,
                   pre_connections>>
    /\ UNCHANGED sched_vars

\* ------------------------------------------------------------ specifications
\* fire_many has not been called
SchedIdle ==
    /\ sched_pc = "idle"
    /\ projectables = <<>>
    /\ target = "Y"
    /\ layers = <<>>
    /\ next_layer = 0
    /\ rounds = <<>>
    /\ call_winners = [a \in Areas |-> <<>>]

\* no fire call made yet: every winner array empty, plasticity enabled
NeverFired ==
    /\ winners = [a \in Areas |-> <<>>]
    /\ plasticity_disabled = FALSE
    /\ fire_pc = "idle"
    /\ sources_mapping = <<>>
    /\ new_winners = <<>>
    /\ fires = 0
    /\ fire_error = FALSE
    /\ pre_winners = [a \in Areas |-> <<>>]
    /\ pre_connections = <<>>

\* Connectome(p, areas, stimuli): the areas X1, X2, Y, Z and the stimulus S
\* registered (U is not), no connection yet, every winner array empty
Constructed ==
    /\ areas = <<"X1", "X2", "Y", "Z">>
    /\ stimuli = <<"S">>
    /\ connections = <<>>
    /\ NeverFired

\* every acyclic parent graph over the entities, within the bounds
SchedInit ==
    /\ parents \in {f \in [Assemblies -> DistinctSeqs(Entities, MaxParents)] :
                       \A a \in Assemblies :
                           \A i \in 1..Len(f[a]) : Rank(f[a][i]) < Rank(a)}
    /\ ent_area \in {f \in [Assemblies -> Areas] :
                        /\ f["A1"] = "X1"
                        /\ f["A2"] \in {"X1", "X2"}
                        /\ f["B"] = "Y"}
    /\ SchedIdle
    /\ Constructed

\* the engine on its own: the parent graph is the chain S -> A1 -> B
Init ==
    /\ parents = [a \in Assemblies |-> IF a = "B" THEN <<"A1">> ELSE <<"S">>]
    /\ ent_area = [a \in Assemblies |->
                      CASE a = "A1" -> "X1" [] a = "A2" -> "X2" [] a = "B" -> "Y"]
    /\ SchedIdle
    /\ Constructed

\* parent graphs in which A1 has one parent, any entity: A1 lies on a parent
\* cycle when that parent is A1 or descends from A1
CycleInit ==
    /\ parents \in {[a \in Assemblies |->
                        CASE a = "A1" -> <<p>> [] a = "A2" -> q [] a = "B" -> r] :
                    p \in Entities, q \in {<<"S">>, <<"A1">>},
                    r \in {<<"A1">>, <<"A1", "A2">>}}
    /\ ent_area = [a \in Assemblies |->
                      CASE a = "A1" -> "X1" [] a = "A2" -> "X2" [] a = "B" -> "Y"]
    /\ SchedIdle
    /\ Constructed

\* Connectome(p) with no part, parts then added one by one
RegInit ==
    /\ parents = [a \in Assemblies |-> IF a = "B" THEN <<"A1">> ELSE <<"S">>]
    /\ ent_area = [a \in Assemblies |->
                      CASE a = "A1" -> "X1" [] a = "A2" -> "X2" [] a = "B" -> "Y"]
    /\ SchedIdle
    /\ areas = <<>>
    /\ stimuli = <<>>
    /\ connections = <<>>
    /\ NeverFired

\* Connectome(1, areas, stimuli, initialize=True): every draw is 1; a few
\* acyclic parent graphs over it
BrainInit ==
    /\ parents \in {[a \in Assemblies |->
                        CASE a = "A1" -> <<"S">> [] a = "A2" -> q [] a = "B" -> r] :
                    q \in {<<"S">>, <<"A1">>},
                    r \in {<<"A1">>, <<"A1", "A2">>}}
    /\ ent_area = [a \in Assemblies |->
                      CASE a = "A1" -> "X1" [] a = "A2" -> "X2" [] a = "B" -> "Y"]
    /\ SchedIdle
    /\ areas = <<"X1", "X2", "Y", "Z">>
    /\ stimuli = <<"S">>
    /\ connections = InitializeParts(<<>>, 0, <<"X1", "X2", "Y", "Z", "S">>,
                                     <<"X1", "X2", "Y", "Z", "S">>)
    /\ NeverFired

SchedNext == FireMany \/ BuildLayer \/ ReverseLayers \/ NextRound

RegNext == AddArea \/ AddStimulus

BrainNext ==
    \/ FireMany \/ BuildLayer \/ ReverseLayers \/ NextRoundFire
    \/ ProjectInto \/ UpdateConnectomes \/ UpdateWinners

Next ==
    Fire \/ ProjectInto \/ UpdateConnectomes \/ UpdateWinners \/ SetPlasticity

\* fire_many over every parent graph, the rounds it issues recorded
SchedSpec == SchedInit /\ [][SchedNext]_vars

\* the connectome engine under sequences of fire calls
Spec == Init /\ [][Next]_vars

\* fire_many over parent graphs with cycles; fire_many runs to its end unless
\* its loop goes on for ever
CycleSpec == CycleInit /\ [][SchedNext]_vars /\ WF_vars(SchedNext)

\* parts registered one by one
RegSpec == RegInit /\ [][RegNext]_vars

\* fire_many driving the connectome engine, one round after the other
BrainSpec == BrainInit /\ [][BrainNext]_vars

\* ================================================================== claims
\* the destinations a round's mapping gives for a key
Dests(mapping, key) == SeqSet(DictGet(mapping, key, <<>>))

\* what a projectable is fired as: a stimulus itself, an assembly's area
FiredAs(e) == IF IsStimulus(e) THEN e ELSE ent_area[e]

IsPrefix(s, t) == Len(s) <= Len(t) /\ \A i \in 1..Len(s) : s[i] = t[i]

\* the chain S -> A1 (area X1) -> B (area Y), and fire_many(brain, [B], Y)
ChainRequested ==
    /\ parents["A1"] = <<"S">>
    /\ parents["B"] = <<"A1">>
    /\ ent_area["A1"] = "X1"
    /\ ent_area["B"] = "Y"
    /\ projectables = <<"B">>
    /\ target = "Y"

ChainTwoRounds ==
    << << <<"S", <<"X1">> >> >>, << <<"X1", <<"Y">> >> >> >>

ChainThreeRounds == Append(ChainTwoRounds, << <<"Y", <<"Y">> >> >>)

\* C1 as stated: for the chain S -> A1 (X1) -> B (Y), fire_many(brain, [B], Y)
\* issues exactly the two rounds {S: [X1]} and {X1: [Y]}, in this order.
C1_ExactlyTwoRounds ==
    ChainRequested =>
        /\ IsPrefix(rounds, ChainTwoRounds)
        /\ sched_pc = "done" => rounds = ChainTwoRounds

\* C1 amended: for the chain, fire_many(brain, [B], Y) issues exactly the
\* three rounds {S: [X1]}, {X1: [Y]}, {Y: [Y]}, in this order, and no other
\* round before, between or after them.
C1_ExactlyThreeRounds ==
    ChainRequested =>
        /\ IsPrefix(rounds, ChainThreeRounds)
        /\ sched_pc = "done" => rounds = ChainThreeRounds

C1_Witness ==
    ChainRequested /\ sched_pc = "done" /\ Len(rounds) = 3

\* the fan-in S -> A1 (X1), S -> A2 (X2), {A1, A2} -> B (Y), and
\* fire_many(brain, [B], Y)
FanInRequested ==
    /\ parents["A1"] = <<"S">>
    /\ parents["A2"] = <<"S">>
    /\ SeqSet(parents["B"]) = {"A1", "A2"}
    /\ ent_area["A1"] = "X1"
    /\ ent_area["A2"] = "X2"
    /\ ent_area["B"] = "Y"
    /\ projectables = <<"B">>
    /\ target = "Y"

\* C2: in every layer built after the first, a parent's destination list
\* holds the area of every assembly of the previous layer it is a parent of;
\* and for the fan-in, one round fires S into both X1 and X2 and precedes a
\* round that fires X1 and X2 into Y.
C2_SharedParentGetsEveryArea ==
    /\ sched_pc = "build" =>
          \A i \in 2..Len(layers) :
              \A a \in DictKeySet(layers[i - 1]) \cap Assemblies :
                  \A q \in SeqSet(parents[a]) :
                      ent_area[a] \in Dests(layers[i], q)
    /\ (FanInRequested /\ sched_pc = "done") =>
          \E r1, r2 \in 1..Len(rounds) :
              /\ r1 < r2
              /\ {"X1", "X2"} \subseteq Dests(rounds[r1], "S")
              /\ "Y" \in Dests(rounds[r2], "X1")
              /\ "Y" \in Dests(rounds[r2], "X2")

\* C3: when fire_many is done, for every assembly e of the layer fired in
\* round r, every parent of e was fired into e's area in a round before r.
C3_ParentsFiredEarlier ==
    sched_pc = "done" =>
        \A r \in 1..Len(rounds) :
            \A e \in DictKeySet(layers[r]) \cap Assemblies :
                \A q \in SeqSet(parents[e]) :
                    \E r0 \in 1..(r - 1) :
                        ent_area[e] \in Dests(rounds[r0], FiredAs(q))

\* ----------------------------------------------------- claims on the engine
RECURSIVE SumFn(_, _)
SumFn(f, S) ==
    IF S = {} THEN 0
    ELSE LET x == CHOOSE y \in S : TRUE IN f[x] + SumFn(f, S \ {x})

\* the sources fired into an area by the request of the current call
SourcesOf(area) == DictGet(sources_mapping, area, <<>>)

\* the neurons of a source that are active in the current call
ActiveBefore(source) ==
    IF source \in Stimuli THEN Neurons(source) ELSE SeqSet(pre_winners[source])

\* entry (i, j) of connection c links an active source neuron to a new
\* winner, for a source the request fires into the area
Potentiated(c, i, j) ==
    /\ DictHas(new_winners, c[2])
    /\ c[1] \in SeqSet(SourcesOf(c[2]))
    /\ i \in ActiveBefore(c[1])
    /\ j \in SeqSet(DictGet(new_winners, c[2], <<>>))

\* C4: while fire computes new winners, no winner set has been overwritten
\* and no weight scaled, and every new winner array computed so far is the
\* top-k of the inputs taken from the winners and weights the call began with.
C4_WinnersFromOldState ==
    fire_pc = "project" =>
        /\ winners = pre_winners
        /\ connections = pre_connections
        /\ \A i \in 1..Len(new_winners) :
              LET area == new_winners[i][1]
              IN  new_winners[i][2] =
                      TopK(PrevWinnerInputs(pre_connections, pre_winners, area,
                                            SourcesOf(area)),
                           PartN[area], AreaK[area])

\* two areas fired into each other, the first one's new winners computed and
\* different from the winners it had
C4_Witness ==
    /\ fire_pc = "project"
    /\ Len(new_winners) = 2
    /\ \E a, b \in Areas :
          /\ a # b
          /\ new_winners[1][1] = a
          /\ new_winners[2][1] = b
          /\ a \in SeqSet(SourcesOf(b))
          /\ b \in SeqSet(SourcesOf(a))
          /\ pre_winners[a] # <<>>
          /\ SeqSet(new_winners[1][2]) # SeqSet(pre_winners[a])

\* C5: after the plasticity step of a call with plasticity enabled, every
\* weight from an active source neuron to a new winner of a connection the
\* request uses is (1 + beta) times what it was, exactly once, and every
\* other weight is what it was.
C5_ScaledExactlyOnce ==
    (fire_pc = "update_winners" /\ ~plasticity_disabled) =>
        \A c \in DOMAIN connections :
            \A i \in Neurons(c[1]), j \in Neurons(c[2]) :
                connections[c][i][j] =
                    IF Potentiated(c, i, j)
                    THEN pre_connections[c][i][j] * (1 + Beta(c[1], c[2]))
                    ELSE pre_connections[c][i][j]

IsDistinct(s) == \A i, j \in 1..Len(s) : i # j => s[i] # s[j]

\* C6: a winner array never has more than k elements, its elements are
\* distinct indices in [0, n), and after a completed call every area the call
\* fired into has exactly min(k, n) winners.
C6_WinnerCount ==
    /\ \A a \in Areas :
          /\ Len(winners[a]) <= AreaK[a]
          /\ IsDistinct(winners[a])
          /\ SeqSet(winners[a]) \subseteq Neurons(a)
          /\ winners[a] = <<>> \/ Len(winners[a]) = Min(AreaK[a], PartN[a])
    /\ (fire_pc = "idle" /\ fires > 0 /\ ~fire_error) =>
          \A a \in DictKeySet(sources_mapping) :
              Len(winners[a]) = Min(AreaK[a], PartN[a])

\* a call into the area with k = n has completed, after a call into the
\* area with k = 0
C6_Witness ==
    /\ fire_pc = "idle"
    /\ ~fire_error
    /\ "Y" \in DictKeySet(sources_mapping)
    /\ Len(winners["Y"]) = PartN["Y"]
    /\ <<"S", "Z">> \in DOMAIN connections
    /\ winners["Z"] = <<>>

\* the total input of neuron j of an area, as the sum over the listed sources
C7_TotalInput(area, j) ==
    LET sources == SourcesOf(area)
        PerSource == [q \in 1..Len(sources) |->
            LET w == connections[<<sources[q], area>>]
            IN  IF sources[q] \in Stimuli
                THEN SumFn([i \in Neurons(sources[q]) |-> w[i][j]],
                           Neurons(sources[q]))
                ELSE SumFn([i \in SeqSet(winners[sources[q]]) |-> w[i][j]],
                           SeqSet(winners[sources[q]]))]
    IN  SumFn(PerSource, 1..Len(sources))

\* C7: the array _project_into returns for an area holds k neurons of the
\* area, and no neuron outside it has a strictly larger total input than a
\* neuron inside it.
C7_TopKByInput ==
    fire_pc = "project" =>
        \A q \in 1..Len(new_winners) :
            LET area == new_winners[q][1]
                W == SeqSet(new_winners[q][2])
            IN  /\ W \subseteq Neurons(area)
                /\ Cardinality(W) = AreaK[area]
                /\ \A j \in W, m \in Neurons(area) \ W :
                      C7_TotalInput(area, m) <= C7_TotalInput(area, j)

\* an area and a stimulus fired together into an area whose inputs differ
C7_Witness ==
    /\ fire_pc = "project"
    /\ \E q \in 1..Len(new_winners) :
          LET area == new_winners[q][1]
          IN  /\ Len(SourcesOf(area)) = 2
              /\ \E src \in SeqSet(SourcesOf(area)) \cap Areas :
                    winners[src] # <<>>
              /\ \E j, m \in Neurons(area) :
                    C7_TotalInput(area, m) < C7_TotalInput(area, j)

\* C8: while plasticity is disabled no step changes a weight of an existing
\* connection.
C8_NoWeightChangeWhenDisabled ==
    [][plasticity_disabled =>
          \A c \in DOMAIN connections :
              /\ c \in DOMAIN connections'
              /\ connections'[c] = connections[c]]_vars

\* with plasticity disabled, a call has passed its plasticity step with a
\* positive weight from an active neuron to a new winner, and goes on to
\* overwrite winners
C8_Witness ==
    /\ plasticity_disabled
    /\ fire_pc = "update_winners"
    /\ \E c \in DOMAIN connections :
          \E i \in Neurons(c[1]), j \in Neurons(c[2]) :
              Potentiated(c, i, j) /\ connections[c][i][j] > 0
    /\ \E a \in DictKeySet(sources_mapping) :
          DictGet(new_winners, a, <<>>) # winners[a]

\* C9: no step decreases a weight of an existing connection: a step leaves
\* an entry as it is or, in the plasticity step, makes a positive entry from
\* an active neuron to a new winner strictly larger.
C9_WeightsNeverDecrease ==
    [][\A c \in DOMAIN connections :
          /\ c \in DOMAIN connections'
          /\ \A i \in Neurons(c[1]), j \in Neurons(c[2]) :
                \/ connections'[c][i][j] = connections[c][i][j]
                \/ /\ connections'[c][i][j] > connections[c][i][j]
                   /\ connections[c][i][j] > 0
                   /\ fire_pc = "project"
                   /\ ~plasticity_disabled
                   /\ Potentiated(c, i, j)]_vars

\* a weight has grown in the plasticity step of the current call
C9_Witness ==
    /\ fire_pc = "update_winners"
    /\ ~plasticity_disabled
    /\ \E c \in DOMAIN connections :
          \E i \in Neurons(c[1]), j \in Neurons(c[2]) :
              connections[c][i][j] > pre_connections[c][i][j]

\* the connections the request of the current call maps
Mapped(c) == c[1] \in SeqSet(SourcesOf(c[2]))

\* C10: from the start of a call on, the winners of every area that is not
\* a destination of the request and the weights of every connection the
\* request does not map are what they were when the call began; a request
\* with only empty destination lists changes nothing and raises no error.
C10_FrameOfFire ==
    /\ \A a \in Areas \ DictKeySet(sources_mapping) :
          winners[a] = pre_winners[a]
    /\ \A c \in DOMAIN connections :
          ~Mapped(c) => /\ c \in DOMAIN pre_connections
                        /\ connections[c] = pre_connections[c]
    /\ (fires > 0 /\ sources_mapping = <<>>) =>
          /\ winners = pre_winners
          /\ connections = pre_connections
          /\ ~fire_error

\* a call has completed and changed winners and weights, while another area
\* has winners and another connection exists
C10_Witness ==
    /\ fire_pc = "idle"
    /\ fires > 0
    /\ ~fire_error
    /\ winners # pre_winners
    /\ connections # pre_connections
    /\ \E a \in Areas \ DictKeySet(sources_mapping) : winners[a] # <<>>
    /\ \E c \in DOMAIN connections :
          ~Mapped(c) /\ \E i \in Neurons(c[1]), j \in Neurons(c[2]) :
                            connections[c][i][j] > 1

\* the parents of the assemblies among a set of entities
ParentsOf(E) == UNION {SeqSet(parents[e]) : e \in E \cap Assemblies}

\* a set of entities and all their ancestors in the parent graph
RECURSIVE Ancestry(_)
Ancestry(E) ==
    IF ParentsOf(E) \subseteq E THEN E ELSE Ancestry(E \cup ParentsOf(E))

\* the areas of the requested assemblies and of their ancestor assemblies
HostAreas == {ent_area[e] : e \in Ancestry(SeqSet(projectables)) \cap Assemblies}

\* fire_many has returned, the fire call of its last round included
CallReturned == sched_pc = "done" /\ fire_pc = "idle"

\* C11 as stated: after fire_many, the winners of every area other than the
\* target are what they were before the call.
C11_OnlyTargetChanges ==
    CallReturned =>
        \A a \in Areas \ {target} : winners[a] = call_winners[a]

\* C11 amended: after fire_many, the winners of every area that is neither the
\* target nor the area of a requested assembly or of one of its ancestors are
\* what they were before the call.
C11_OnlyHostAreasChange ==
    CallReturned =>
        \A a \in Areas \ ({target} \cup HostAreas) :
            winners[a] = call_winners[a]

\* a call has returned that changed the winners of an ancestor's area and
\* left alone an area outside the graph whose winners an earlier call had set
C11_Witness ==
    /\ CallReturned
    /\ \E a \in HostAreas \ {target} : winners[a] # call_winners[a]
    /\ \E a \in Areas \ ({target} \cup HostAreas) :
          winners[a] # <<>> /\ winners[a] = call_winners[a]


\* the parts registered with the connectome
Registered == SeqSet(areas) \cup SeqSet(stimuli)

\* the last fire call names a destination or a source that was never registered
ReferencesUnregistered ==
    \E i \in 1..Len(sources_mapping) :
        \/ sources_mapping[i][1] \notin SeqSet(areas)
        \/ \E source \in SeqSet(sources_mapping[i][2]) : source \notin Registered

\* C12: no connection is ever created for a pair with an unregistered source or
\* destination, and a fire call that names an unregistered part ends in an
\* error with the winners as they were before the call.
C12_UnregisteredRejected ==
    /\ \A c \in DOMAIN connections :
          c[1] \in Registered /\ c[2] \in SeqSet(areas)
    /\ (fires > 0 /\ fire_pc = "idle" /\ ReferencesUnregistered) =>
          fire_error /\ winners = pre_winners


\* C13: after parts were added one by one, the connection keys are exactly the
\* pairs of a registered part and a registered area; no connection leads to a
\* stimulus.
C13_KeysAreAreaPairs ==
    DOMAIN connections = Registered \X SeqSet(areas)


\* an assembly that is its own ancestor
OnCycle(a) == a \in Ancestry(ParentsOf({a}))

\* a requested assembly, or an ancestor of a requested entity, lies on a cycle
CycleReachable ==
    \E a \in Ancestry(SeqSet(projectables)) \cap Assemblies : OnCycle(a)

\* C14: when no assembly reachable from the request lies on a parent cycle,
\* fire_many runs to its end, and the layer it built last holds no assembly;
\* when one does, the layer-building loop never exits and no round is issued.
C14_TerminatesUnlessCycle ==
    /\ (sched_pc = "build" /\ ~CycleReachable) ~> (sched_pc = "done")
    /\ [](sched_pc \in {"fire", "done"} => ~AnyAssembly(layers[1]))
    /\ [](sched_pc # "idle" /\ CycleReachable =>
              sched_pc = "build" /\ rounds = <<>>)

\* the loop of a request that reaches a cycle has built as many layers as the
\* bound allows and still finds an assembly in the last one
C14_Witness ==
    /\ CycleReachable
    /\ sched_pc = "build"
    /\ Len(layers) = MaxLayers
    /\ AnyAssembly(layers[Len(layers)])


\* the layers the loop builds from a first layer, in build order
RECURSIVE BuiltFrom(_)
BuiltFrom(layer) ==
    IF AnyAssembly(layer) THEN <<layer>> \o BuiltFrom(NextLayerOf(layer))
    ELSE <<layer>>

\* the layers of the current call, in build order
Built == BuiltFrom(DictFromPairs(FirstLayer(projectables, target), <<>>))

\* C16: the rounds issued so far are those of the layers built, one each, last
\* built first; a round is issued only when the fire call of the one before
\* has returned; at the end there is one round per layer, and the last round
\* has the requested stimuli and the areas of the requested assemblies as its
\* keys and the target as its only destination.
C16_OneRoundPerLayerReversed ==
    /\ sched_pc \in {"fire", "done"} =>
          /\ Len(rounds) = next_layer - 1
          /\ Len(rounds) <= Len(Built)
          /\ \A i \in 1..Len(rounds) :
                rounds[i] = RoundMapping(Built[Len(Built) + 1 - i])
    /\ (sched_pc \in {"fire", "done"} /\ fire_pc # "idle") =>
          /\ Len(rounds) > 0
          /\ sources_mapping = SourcesMapping(<<>>, rounds[Len(rounds)])
    /\ sched_pc = "done" =>
          /\ Len(rounds) = Len(Built)
          /\ DictKeySet(rounds[Len(rounds)]) =
                {FiredAs(e) : e \in SeqSet(projectables)}
          /\ \A key \in DictKeySet(rounds[Len(rounds)]) :
                Dests(rounds[Len(rounds)], key) = {target}

\* a call for a stimulus and an assembly together has issued its three or
\* more rounds and the last fire call has returned
C16_Witness ==
    /\ CallReturned
    /\ Len(rounds) >= 3
    /\ \E i, j \in 1..Len(projectables) :
          IsStimulus(projectables[i]) /\ IsAssembly(projectables[j])


\* the assemblies of a layer that have entity e among their parents
ChildrenIn(layer, e) ==
    {c \in DictKeySet(layer) \cap Assemblies : e \in SeqSet(parents[c])}

\* C17: in every layer built after the first, each destination listed for an
\* entity is the area of an assembly of the layer built before that has the
\* entity among its parents.
C17_OnlyIntoChildrenAreas ==
    sched_pc = "build" =>
        \A l \in 2..Len(layers) :
            \A e \in DictKeySet(layers[l]) :
                Dests(layers[l], e) \subseteq
                    {ent_area[c] : c \in ChildrenIn(layers[l - 1], e)}


\* positions i < j of a layer that hold the only two assemblies of one area
SharedArea(layer, i, j) ==
    /\ i < j
    /\ IsAssembly(layer[i][1]) /\ IsAssembly(layer[j][1])
    /\ ent_area[layer[i][1]] = ent_area[layer[j][1]]
    /\ \A h \in 1..Len(layer) :
          (IsAssembly(layer[h][1]) /\ ent_area[layer[h][1]] = ent_area[layer[i][1]])
              => h \in {i, j}

\* C18: in the round of a layer in which two assemblies share their area, the
\* area is mapped to the first one's destination list followed by the second
\* one's; every stimulus of the layer keeps its destination list in the round.
C18_SharedAreaConcatenated ==
    \A r \in 1..Len(rounds) :
        /\ \A i, j \in 1..Len(layers[r]) :
              SharedArea(layers[r], i, j) =>
                  DictGet(rounds[r], ent_area[layers[r][i][1]], <<>>) =
                      layers[r][i][2] \o layers[r][j][2]
        /\ \A s \in DictKeySet(layers[r]) \cap Stimuli :
              /\ DictHas(rounds[r], s)
              /\ DictGet(rounds[r], s, <<>>) = DictGet(layers[r], s, <<>>)

\* a round was issued for a layer holding a stimulus and two assemblies of one
\* area
C18_Witness ==
    \E r \in 1..Len(rounds) :
        /\ \E i, j \in 1..Len(layers[r]) : SharedArea(layers[r], i, j)
        /\ DictKeySet(layers[r]) \cap Stimuli # {}


RECURSIVE Pow(_, _)
Pow(b, m) == IF m = 0 THEN 1 ELSE b * Pow(b, m - 1)

\* the step is the projection into the area of pair c, from a request that
\* fires the source of c into it
ProjectingInto(c) ==
    /\ fire_pc = "project"
    /\ Len(new_winners) < Len(sources_mapping)
    /\ sources_mapping[Len(new_winners) + 1][1] = c[2]
    /\ c[1] \in SeqSet(sources_mapping[Len(new_winners) + 1][2])

\* the step is the plasticity update of a completed projection
Scaling ==
    /\ fire_pc = "project"
    /\ fire_pc' = "update_winners"
    /\ ~plasticity_disabled

\* C19: a step of fire adds a connection only for a pair that has none, while
\* projecting into the pair's area and before that area's new winners are
\* computed; new winners are computed only from pairs that have a connection;
\* the weights of a pair that has a connection change only in the plasticity
\* update, each by a power of (1 + beta); no connection is ever removed.
C19_LazyOnceOnly ==
    [][/\ DOMAIN connections \subseteq DOMAIN connections'
       /\ \A c \in DOMAIN connections' \ DOMAIN connections :
             ProjectingInto(c) /\ ~DictHas(new_winners, c[2])
       /\ \A a \in DictKeySet(new_winners') :
             \A source \in SeqSet(DictGet(sources_mapping', a, <<>>)) :
                 <<source, a>> \in DOMAIN connections'
       /\ \A c \in DOMAIN connections :
             connections'[c] # connections[c] =>
                 /\ Scaling
                 /\ \A i \in Neurons(c[1]), j \in Neurons(c[2]) :
                       \E m \in 0..Len(SourcesOf(c[2])) :
                           connections'[c][i][j] =
                               connections[c][i][j] * Pow(1 + Beta(c[1], c[2]), m)
      ]_vars

\* an area was projected into a second time from a source whose connection
\* carries weights scaled by an earlier call
C19_Witness ==
    /\ fires = MaxFires
    /\ \E a \in DictKeySet(new_winners) :
          \E source \in SeqSet(SourcesOf(a)) :
              /\ <<source, a>> \in DOMAIN connections
              /\ \E i \in Neurons(source), j \in Neurons(a) :
                    pre_connections[<<source, a>>][i][j] > 1

====
